---- MODULE Spec2Model ----
(***************************************************************************)
(* Model of the three comparison scripts of asymptotic-pouch-cell:         *)
(*   compare_models.py                      (DFNCC against 1+1D and COMSOL)*)
(*   supplementary/plot_discharge_curve.py  (discharge curves per C-rate)  *)
(*   supplementary/plot_potentials_concentrations.py (through-thickness)   *)
(* Each script is a sequential program: a run is chosen in Init together   *)
(* with the data the script loads, and every action is one block of the    *)
(* script.  Arrays are sequences (1-D) and sequences of rows (2-D).        *)
(***************************************************************************)
EXTENDS Integers, Sequences, FiniteSets, TLC

VARIABLES script, pc, data, cm, figures, V_av_calls, dc, curves, spline, pp

vars == <<script, pc, data, cm, figures, V_av_calls, dc, curves, spline, pp>>

(* ------------------------------ bounds --------------------------------- *)
\* number of solution times, of current-collector points, largest raw datum
NT == 2
NZ == 2
MaxVal == 1

Times == 1 .. NT
ZPts == 1 .. NZ
Vals == 0 .. MaxVal

(* --------------------------- numpy helpers ----------------------------- *)
Shape(A) == <<Len(A), IF Len(A) = 0 THEN 0 ELSE Len(A[1])>>

\* a[:, np.newaxis] : shape (n,) -> (n, 1)
NewAxis(a) == [i \in 1 .. Len(a) |-> <<a[i]>>]

\* np.repeat(A, k, axis=0) : every row k times in a row, shape (n*k, m)
Repeat0(A, k) == [r \in 1 .. Len(A) * k |-> A[((r - 1) \div k) + 1]]

\* np.repeat(A, k, axis=1) : every entry of a row k times, shape (n, m*k)
Repeat1(A, k) ==
    [i \in 1 .. Len(A) |-> [c \in 1 .. Len(A[i]) * k |-> A[i][((c - 1) \div k) + 1]]]

\* np.transpose(A) : shape (n, m) -> (m, n)
Transpose(A) ==
    [j \in 1 .. (IF Len(A) = 0 THEN 0 ELSE Len(A[1])) |-> [i \in 1 .. Len(A) |-> A[i][j]]]

\* A - v for A of shape (n, m) and v of shape (k,): numpy broadcasts v over
\* the rows, and stretches a length-1 last axis of either operand
Sub2D1D(A, v) ==
    LET m == Len(A[1])
        k == Len(v)
        c == IF m = 1 THEN k ELSE m
    IN  [i \in 1 .. Len(A) |->
            [j \in 1 .. c |-> A[i][IF m = 1 THEN 1 ELSE j] - v[IF k = 1 THEN 1 ELSE j]]]

\* A - s for a scalar s
Sub2DScalar(A, s) == [i \in 1 .. Len(A) |-> [j \in 1 .. Len(A[i]) |-> A[i][j] - s]]

\* a * s, s + a and a - b on 1-D arrays
Mul1DScalar(a, s) == [j \in 1 .. Len(a) |-> a[j] * s]
Add1DScalar(a, s) == [j \in 1 .. Len(a) |-> s + a[j]]
Sub1D(a, b) == [j \in 1 .. Len(a) |-> a[j] - b[j]]

(* ------------------------ floating point ------------------------------- *)
\* Times, time scales and lengths are floating-point numbers.  A positive
\* float is <<m, e>>, the number m * 2^e with a mantissa of Precision bits,
\* 2^(Precision-1) <= m < 2^Precision, and zero is <<0, 0>>; every operation
\* rounds its exact result to the nearest float, ties to the even mantissa
\* (IEEE 754).
Precision == 4

RECURSIVE Pow2(_)
Pow2(k) == IF k <= 0 THEN 1 ELSE 2 * Pow2(k - 1)

\* the float nearest to (n / d) * 2^e, for integers n >= 0 and d > 0
RECURSIVE Round(_, _, _)
Round(n, d, e) ==
    IF n = 0 THEN <<0, 0>>
    ELSE IF n < Pow2(Precision - 1) * d THEN Round(2 * n, d, e - 1)
    ELSE IF n >= Pow2(Precision) * d THEN Round(n, 2 * d, e + 1)
    ELSE IF 2 * (n % d) < d \/ (2 * (n % d) = d /\ (n \div d) % 2 = 0)
    THEN <<n \div d, e>>
    ELSE IF (n \div d) + 1 = Pow2(Precision) THEN <<Pow2(Precision - 1), e + 1>>
    ELSE <<(n \div d) + 1, e>>

\* a / b and a * b on floats
FDiv(a, b) == Round(a[1], b[1], a[2] - b[2])
FMul(a, b) == Round(a[1] * b[1], 1, a[2] + b[2])

\* a < b on floats (exact)
FLess(a, b) ==
    IF a[2] <= b[2]
    THEN a[1] < b[1] * Pow2(b[2] - a[2])
    ELSE a[1] * Pow2(a[2] - b[2]) < b[1]

\* an array computed once and held by its elements
Array(a) == a \o <<>>

\* mutant of MulArray: the array divided where it is to be multiplied
MulArray_divides(t, s) == Array([j \in 1 .. Len(t) |-> FDiv(t[j], s)])

\* array / scalar and array * scalar
DivArray(t, s) == Array([j \in 1 .. Len(t) |-> FDiv(t[j], s)])
MulArray(t, s) == Array([j \in 1 .. Len(t) |-> FMul(t[j], s)])

Range(s) == { s[i] : i \in 1 .. Len(s) }

\* mutant of AbsDiff: the difference without the absolute value
AbsDiff_signed(a, b) == Array([j \in 1 .. Len(a) |-> a[j] - b[j]])

Abs(v) == IF v < 0 THEN 0 - v ELSE v
\* np.abs(a - b) on 1-D arrays
AbsDiff(a, b) == Array([j \in 1 .. Len(a) |-> Abs(a[j] - b[j])])

(* --------------------------- scipy interp1d ---------------------------- *)
\* interp1d(x, y, kind=...): an order-3 spline needs 4 points
interp1d(x, y, kind) ==
    IF kind = "cubic" /\ Len(x) < 4
    THEN [error |-> "ValueError"]
    ELSE [error |-> "none", x |-> x, y |-> y, kind |-> kind]

\* bounds_error is left at its default: a query below x[0] or above x[-1] raises
OutOfRange(f, q) == FLess(q, f.x[1]) \/ FLess(f.x[Len(f.x)], q)

\* between two knots scipy's spline takes a value that may leave the range
\* of its two neighbours: it is one of these, the same for every query
Splines == {"under", "between", "over"}
Between(a, b) ==
    LET lo == IF a < b THEN a ELSE b
        hi == IF a < b THEN b ELSE a
    IN  CASE spline = "under" -> lo - 1
          [] spline = "over" -> hi + 1
          [] OTHER -> (lo + hi) \div 2

\* mutant of ValueAt: a smoothing fit, off the stored sample at a knot
ValueAt_smoothed(f, q) ==
    IF \E k \in 1 .. Len(f.x) : f.x[k] = q
    THEN f.y[CHOOSE k \in 1 .. Len(f.x) : f.x[k] = q] + 1
    ELSE f.y[1]

\* f(q) for one query inside the range: the stored sample at a knot
ValueAt(f, q) ==
    IF \E k \in 1 .. Len(f.x) : f.x[k] = q
    THEN f.y[CHOOSE k \in 1 .. Len(f.x) :
                 f.x[k] = q /\ \A l \in 1 .. k - 1 : f.x[l] # q]
    ELSE LET k == CHOOSE k \in 1 .. Len(f.x) - 1 : FLess(f.x[k], q) /\ FLess(q, f.x[k + 1])
         IN  Between(f.y[k], f.y[k + 1])

\* f(q) for an array q
ArrayAt(f, q) == Array([j \in 1 .. Len(q) |-> ValueAt(f, q[j])])

Raises(f, q) == \E j \in 1 .. Len(q) : OutOfRange(f, q[j])

\* mutant of interp1d_call: a query outside the range answered with the
\* nearest end sample
interp1d_call_clamped(f, q) ==
    [error |-> "none",
     value |-> Array([j \in 1 .. Len(q) |->
                   IF FLess(q[j], f.x[1]) THEN f.y[1]
                   ELSE IF FLess(f.x[Len(f.x)], q[j]) THEN f.y[Len(f.y)]
                   ELSE ValueAt(f, q[j])])]

\* f(q): the array of values, or the exception
interp1d_call(f, q) ==
    IF Raises(f, q)
    THEN [error |-> "ValueError"]
    ELSE [error |-> "none", value |-> ArrayAt(f, q)]

(* ------------------- compare_models.py: loaded data -------------------- *)
\* parameter values read with param.evaluate
potential_scale == 2
U_p_ref == 7
U_n_ref == 3
T_ref_param == 20
\* typical current density: turns "Total current density" into [A.m-2]
i_typ == 5

\* solutions["Average DFN"]: at every solution time the averaged cell state
AverageSolutions == [Times -> [v : Vals, i : Vals]]

\* dfn_av.variables[name] on the Average DFN solution: a series over the times
AverageVariable(name, sol) ==
    CASE name = "Terminal voltage" -> [t \in Times |-> 3 + sol[t].v]
      [] name = "Total current density" -> [t \in Times |-> 1 + sol[t].i]
      [] name = "Current collector current density [A.m-2]" ->
             [t \in Times |-> i_typ * (1 + sol[t].i)]
      [] name = "X-averaged cell temperature [K]" ->
             [t \in Times |-> T_ref_param + 2 * sol[t].v + sol[t].i]

\* a variable of the 1+1D DFN or of the COMSOL model over (z, t); off is the
\* datum that tells the two sources (and two data sets) apart
FieldVariable(name, off) ==
    LET base == CASE name = "Negative current collector potential [V]" -> 0
                  [] name = "Positive current collector potential [V]" -> 30
                  [] name = "Current collector current density [A.m-2]" -> 10
                  [] name = "X-averaged cell temperature [K]" -> T_ref_param
    IN  [z \in ZPts |-> [t \in Times |-> base + off + 3 * z + t * t]]

\* "Terminal voltage [V]" of the 1+1D DFN or of the COMSOL model
TerminalVoltageDim(off) == [t \in Times |-> 30 + 2 * off - t]

\* resistance shape functions of the current-collector solution along z
R_cn(z) == z
R_cp(z) == 2 * z

\* pybamm.ProcessedVariable.__call__ for a variable of time only: shape (nt,)
ProcessedVariable0D(series, t) == [j \in 1 .. Len(t) |-> series[t[j]]]

\* pybamm.ProcessedVariable.__call__(t=t, z=z): shape (nz, nt)
ProcessedVariable1D(field, t, z) ==
    [i \in 1 .. Len(z) |-> [j \in 1 .. Len(t) |-> field[z[i]][t[j]]]]

(* --------------------- compare_models.py: closures --------------------- *)
\* Every def reads the module's globals when it is CALLED: g is the binding
\* of the global names at the call.

\* mutant of V_av: the resistive drop added instead of subtracted
V_av_drop_added(g, t) ==
    [j \in 1 .. Len(t) |->
        ProcessedVariable0D(g.V_av_1D, t)[j] + ProcessedVariable0D(g.I_av, t)[j] * g.R_cc]

\* mutant of V_av: the I_av of the definition, not of the call
V_av_early_bound(g, t) ==
    Sub1D(ProcessedVariable0D(g.V_av_1D, t),
          Mul1DScalar(ProcessedVariable0D(g.potentials.I_av, t), g.R_cc))

V_av(g, t) ==
    Sub1D(ProcessedVariable0D(g.V_av_1D, t),
          Mul1DScalar(ProcessedVariable0D(g.I_av, t), g.R_cc))

\* cc_model.get_processed_potentials(..., V_av, I_av): the I_av object is
\* captured when the potentials are built, V_av is called on evaluation
potentials_neg(g, t, z) ==
    LET I == ProcessedVariable0D(g.potentials.I_av, t)
    IN  [i \in 1 .. Len(z) |-> [j \in 1 .. Len(t) |-> R_cn(z[i]) * I[j] * potential_scale]]

potentials_pos(g, t, z) ==
    LET I == ProcessedVariable0D(g.potentials.I_av, t)
        Vt == V_av(g, t)
    IN  [i \in 1 .. Len(z) |->
            [j \in 1 .. Len(t) |->
                (U_p_ref - U_n_ref) + (Vt[j] - R_cp(z[i]) * I[j]) * potential_scale]]

comsol_var_fun_pos(g, t, z) ==
    Sub2D1D(ProcessedVariable1D(g.comsol_var, t, z), ProcessedVariable0D(g.V_comsol, t))

pybamm_var_fun_pos(g, t, z) ==
    Sub2D1D(ProcessedVariable1D(g.pybamm_var, t, z), ProcessedVariable0D(g.V, t))

V_av_dim(g, t) == Add1DScalar(Mul1DScalar(V_av(g, t), g.pot_scale), g.U_ref)

\* mutant of pybamm_bar_var_fun_pos: the non-dimensional V_av subtracted
pybamm_bar_var_fun_pos_nondim(g, t, z) == Sub2D1D(potentials_pos(g, t, z), V_av(g, t))

pybamm_bar_var_fun_pos(g, t, z) == Sub2D1D(potentials_pos(g, t, z), V_av_dim(g, t))

\* mutant of current_single_instant: repeated along axis 1, shape (1, n)
current_single_instant_axis1(g, t, z) ==
    Repeat1(NewAxis(ProcessedVariable0D(g.I_av, t)), Len(z))

\* line 250, the branch taken when t.shape[0] == 1
current_single_instant(g, t, z) ==
    Repeat0(NewAxis(ProcessedVariable0D(g.I_av, t)), Len(z))

\* mutant of current_general: the transpose forgotten, shape (nt, nz)
current_general_untransposed(g, t, z) ==
    Repeat1(NewAxis(ProcessedVariable0D(g.I_av, t)), Len(z))

\* line 252, the general branch
current_general(g, t, z) ==
    Transpose(Repeat1(NewAxis(ProcessedVariable0D(g.I_av, t)), Len(z)))

pybamm_bar_var_fun_current(g, t, z) ==
    IF Len(t) = 1 THEN current_single_instant(g, t, z) ELSE current_general(g, t, z)

\* mutant of comsol_var_fun_temperature: the raw temperature returned
comsol_var_fun_temperature_raw(g, t, z) == ProcessedVariable1D(g.comsol_var, t, z)

comsol_var_fun_temperature(g, t, z) ==
    Sub2DScalar(ProcessedVariable1D(g.comsol_var, t, z), g.T_ref)

pybamm_var_fun_temperature(g, t, z) ==
    Sub2DScalar(ProcessedVariable1D(g.pybamm_var, t, z), g.T_ref)

\* mutant of temperature_single_instant: T_ref not subtracted in this branch
temperature_single_instant_raw(g, t, z) ==
    Repeat0(NewAxis(ProcessedVariable0D(g.T_av, t)), Len(z))

\* line 305, the branch taken when t.shape[0] == 1
temperature_single_instant(g, t, z) ==
    Sub2DScalar(Repeat0(NewAxis(ProcessedVariable0D(g.T_av, t)), Len(z)), g.T_ref)

\* line 307, the general branch
temperature_general(g, t, z) ==
    Sub2DScalar(Transpose(Repeat1(NewAxis(ProcessedVariable0D(g.T_av, t)), Len(z))),
                g.T_ref)

pybamm_bar_var_fun_temperature(g, t, z) ==
    IF Len(t) = 1 THEN temperature_single_instant(g, t, z) ELSE temperature_general(g, t, z)

\* calling whatever object a name is bound to
Call(f, g, t, z) ==
    CASE f.kind = "ProcessedVariable" -> ProcessedVariable1D(f.field, t, z)
      [] f.kind = "potentials" /\ f.var = "Negative current collector potential [V]" ->
             potentials_neg(g, t, z)
      [] f.kind = "potentials" /\ f.var = "Positive current collector potential [V]" ->
             potentials_pos(g, t, z)
      [] f.kind = "def" /\ f.name = "comsol_var_fun" /\ f.line = 174 ->
             comsol_var_fun_pos(g, t, z)
      [] f.kind = "def" /\ f.name = "pybamm_var_fun" /\ f.line = 192 ->
             pybamm_var_fun_pos(g, t, z)
      [] f.kind = "def" /\ f.name = "pybamm_bar_var_fun" /\ f.line = 208 ->
             pybamm_bar_var_fun_pos(g, t, z)
      [] f.kind = "def" /\ f.name = "pybamm_bar_var_fun" /\ f.line = 248 ->
             pybamm_bar_var_fun_current(g, t, z)
      [] f.kind = "def" /\ f.name = "comsol_var_fun" /\ f.line = 279 ->
             comsol_var_fun_temperature(g, t, z)
      [] f.kind = "def" /\ f.name = "pybamm_var_fun" /\ f.line = 291 ->
             pybamm_var_fun_temperature(g, t, z)
      [] f.kind = "def" /\ f.name = "pybamm_bar_var_fun" /\ f.line = 303 ->
             pybamm_bar_var_fun_temperature(g, t, z)

Def(name, line) == [kind |-> "def", name |-> name, line |-> line]
PV(field) == [kind |-> "ProcessedVariable", field |-> field]

\* t_plot, z_plot and the single instants t_slices of the plots
t_plot == [j \in 1 .. NT |-> j]
z_plot == [i \in 1 .. NZ |-> i]
t_slices == [j \in 1 .. NT |-> j]

\* shared.plot_tz_var: the three sources on the (t_plot, z_plot) grid, then
\* at every single instant of t_slices, with the differences to COMSOL
Evaluate3(g, t, z) ==
    [t |-> t,
     comsol |-> Call(g.comsol_var_fun, g, t, z),
     pybamm |-> Call(g.pybamm_var_fun, g, t, z),
     bar |-> Call(g.pybamm_bar_var_fun, g, t, z)]

plot_tz_var(g) ==
    [var |-> g.var,
     funs |-> <<g.comsol_var_fun, g.pybamm_var_fun, g.pybamm_bar_var_fun>>,
     I_av_name |-> g.I_av_name,
     full |-> Evaluate3(g, t_plot, z_plot),
     slices |-> [s \in 1 .. Len(t_slices) |-> Evaluate3(g, <<t_slices[s]>>, z_plot)]]

\* the evaluations of V_av one plot of the positive collector makes
V_av_evaluations(g) ==
    { [t |-> q, I_av_name |-> g.I_av_name, R_cc |-> g.R_cc, value |-> V_av(g, q)] :
        q \in {t_plot} \cup { <<t_slices[s]>> : s \in 1 .. Len(t_slices) } }

(* ---------------------- compare_models.py: script ---------------------- *)
Unbound == "unbound"
NoFunction == [kind |-> "unbound"]

\* the global names of the script before line 103
cm0 ==
    [R_cc |-> Unbound, V_av_1D |-> Unbound, I_av |-> Unbound, I_av_name |-> Unbound,
     potentials |-> Unbound, var |-> Unbound,
     comsol_var_fun |-> NoFunction, pybamm_var_fun |-> NoFunction,
     pybamm_bar_var_fun |-> NoFunction,
     comsol_var |-> Unbound, V_comsol |-> Unbound, pybamm_var |-> Unbound, V |-> Unbound,
     pybamm_bar_var |-> Unbound, pot_scale |-> Unbound, U_ref |-> Unbound,
     T_ref |-> Unbound, T_av |-> Unbound]

\* what lines 26-100 load and solve: the COMSOL data set, and the solutions of
\* the current-collector problem, the Average DFN and the 1+1D DFN
CompareData ==
    [av : AverageSolutions, R : 1 .. MaxVal + 1, dfn : Vals, comsol : Vals]

InitCompare ==
    /\ script = "compare_models"
    /\ pc = "L103"
    /\ data \in CompareData
    /\ cm = cm0
    /\ figures = <<>>
    /\ V_av_calls = {}
    /\ dc = Unbound
    /\ curves = <<>>
    /\ spline = Unbound
    /\ pp = Unbound

Running(s, l) == script = s /\ pc = l

\* lines 103-105
EvaluateR_cc ==
    /\ Running("compare_models", "L103")
    /\ cm' = [cm EXCEPT !.R_cc = data.R]
    /\ pc' = "L107"
    /\ UNCHANGED <<script, data, figures, V_av_calls, dc, curves, spline, pp>>

\* lines 107-118
ProcessAverages ==
    /\ Running("compare_models", "L107")
    /\ cm' = [cm EXCEPT !.V_av_1D = AverageVariable("Terminal voltage", data.av),
                        !.I_av = AverageVariable("Total current density", data.av),
                        !.I_av_name = "Total current density"]
    /\ pc' = "L125"
    /\ UNCHANGED <<script, data, figures, V_av_calls, dc, curves, spline, pp>>

\* lines 125-127
GetProcessedPotentials ==
    /\ Running("compare_models", "L125")
    /\ cm' = [cm EXCEPT !.potentials = [I_av |-> cm.I_av, I_av_name |-> cm.I_av_name]]
    /\ pc' = "L130"
    /\ UNCHANGED <<script, data, figures, V_av_calls, dc, curves, spline, pp>>

\* lines 130-144
DefineNegative ==
    /\ Running("compare_models", "L130")
    /\ LET var == "Negative current collector potential [V]"
       IN  cm' = [cm EXCEPT !.var = var,
                            !.comsol_var_fun = PV(FieldVariable(var, data.comsol)),
                            !.pybamm_var_fun = PV(FieldVariable(var, data.dfn)),
                            !.pybamm_bar_var_fun = [kind |-> "potentials", var |-> var]]
    /\ pc' = "L145"
    /\ UNCHANGED <<script, data, figures, V_av_calls, dc, curves, spline, pp>>

\* lines 145-156
PlotNegative ==
    /\ Running("compare_models", "L145")
    /\ figures' = Append(figures, plot_tz_var(cm))
    /\ pc' = "L159"
    /\ UNCHANGED <<script, data, cm, V_av_calls, dc, curves, spline, pp>>

\* lines 159-209
DefinePositive ==
    /\ Running("compare_models", "L159")
    /\ LET var == "Positive current collector potential [V]"
       IN  cm' = [cm EXCEPT !.var = var,
                            !.comsol_var = FieldVariable(var, data.comsol),
                            !.V_comsol = TerminalVoltageDim(data.comsol),
                            !.comsol_var_fun = Def("comsol_var_fun", 174),
                            !.pybamm_var = FieldVariable(var, data.dfn),
                            !.V = TerminalVoltageDim(data.dfn),
                            !.pybamm_var_fun = Def("pybamm_var_fun", 192),
                            !.pybamm_bar_var = [kind |-> "potentials", var |-> var],
                            !.pot_scale = potential_scale,
                            !.U_ref = U_p_ref - U_n_ref,
                            !.pybamm_bar_var_fun = Def("pybamm_bar_var_fun", 208)]
    /\ pc' = "L212"
    /\ UNCHANGED <<script, data, figures, V_av_calls, dc, curves, spline, pp>>

\* lines 212-223
PlotPositive ==
    /\ Running("compare_models", "L212")
    /\ figures' = Append(figures, plot_tz_var(cm))
    /\ V_av_calls' = V_av_calls \cup V_av_evaluations(cm)
    /\ pc' = "L226"
    /\ UNCHANGED <<script, data, cm, dc, curves, spline, pp>>

\* lines 226-252
DefineCurrent ==
    /\ Running("compare_models", "L226")
    /\ LET var == "Current collector current density [A.m-2]"
       IN  cm' = [cm EXCEPT !.var = var,
                            !.comsol_var_fun = PV(FieldVariable(var, data.comsol)),
                            !.pybamm_var_fun = PV(FieldVariable(var, data.dfn)),
                            !.I_av = AverageVariable(var, data.av),
                            !.I_av_name = var,
                            !.pybamm_bar_var_fun = Def("pybamm_bar_var_fun", 248)]
    /\ pc' = "L255"
    /\ UNCHANGED <<script, data, figures, V_av_calls, dc, curves, spline, pp>>

\* lines 255-266
PlotCurrent ==
    /\ Running("compare_models", "L255")
    /\ figures' = Append(figures, plot_tz_var(cm))
    /\ pc' = "L269"
    /\ UNCHANGED <<script, data, cm, V_av_calls, dc, curves, spline, pp>>

\* lines 269-307
DefineTemperature ==
    /\ Running("compare_models", "L269")
    /\ LET var == "X-averaged cell temperature [K]"
       IN  cm' = [cm EXCEPT !.T_ref = T_ref_param,
                            !.var = var,
                            !.comsol_var = FieldVariable(var, data.comsol),
                            !.comsol_var_fun = Def("comsol_var_fun", 279),
                            !.pybamm_var = FieldVariable(var, data.dfn),
                            !.pybamm_var_fun = Def("pybamm_var_fun", 291),
                            !.T_av = AverageVariable(var, data.av),
                            !.pybamm_bar_var_fun = Def("pybamm_bar_var_fun", 303)]
    /\ pc' = "L310"
    /\ UNCHANGED <<script, data, figures, V_av_calls, dc, curves, spline, pp>>

\* lines 310-323
PlotTemperature ==
    /\ Running("compare_models", "L310")
    /\ figures' = Append(figures, plot_tz_var(cm))
    /\ pc' = "done"
    /\ UNCHANGED <<script, data, cm, V_av_calls, dc, curves, spline, pp>>

(* -------------- supplementary/plot_discharge_curve.py ------------------ *)
\* number of time samples of a COMSOL data set
NS == 4
\* the C_rates dictionary in its order; the values in tenths
C_rates == << <<"05", 5>>, <<"1", 10>>, <<"2", 20>>, <<"3", 30>> >>
interp_kind == "cubic"
\* voltage_low_cut_dimensional
V_cutoff == 3
\* the stride of the COMSOL markers, [0::25]
stride == 25

\* comsol_variables["time"]: every other float up to the largest mantissa
ComsolTimes == [j \in 1 .. NS |-> <<Pow2(Precision) - 1 - 2 * (NS - j), 0>>]

\* a[-3:]: the last three samples of a series
Last3(a) == SubSeq(a, Len(a) - 2, Len(a))

\* the pickled data sets comsol_1D_{key}C, and one exported with three time
\* samples only
ComsolFiles ==
    { [time |-> ComsolTimes,
       voltage |-> [j \in 1 .. NS |-> V_cutoff + (IF j < NS - c THEN 1 ELSE 0)],
       average_temperature |-> [j \in 1 .. NS |-> 20 + 2 * j + c]] : c \in Vals }
    \cup { [time |-> Last3(ComsolTimes),
            voltage |-> <<V_cutoff + 1, V_cutoff + 1, V_cutoff>>,
            average_temperature |-> <<22, 24, 26>>] }

\* tau_discharge for the C-rate set
TimeScales == { <<m, 0>> : m \in Pow2(Precision - 1) .. Pow2(Precision) - 1 }

\* solver.solve(pybamm_model, time): the solution at the times asked for, the
\* terminal voltage at the cut-off or above it at each of them
Solutions(time) ==
    { [t |-> time,
       voltage |-> v,
       temperature |-> [j \in 1 .. Len(time) |-> 20 + j + v[j]]] :
        v \in [1 .. Len(time) -> {V_cutoff, V_cutoff + 1}] }

\* pybamm.ProcessedVariable(variable, solution.t, ...)(t): at solution times
\* the solution's own values
ProcessedAt(solution_t, series, t) ==
    [j \in 1 .. Len(t) |->
        series[CHOOSE k \in 1 .. Len(solution_t) :
                   /\ solution_t[k] = t[j]
                   /\ \A l \in 1 .. k - 1 : solution_t[l] # t[j]]]

\* a[0::step]
Strided(a, step) ==
    [j \in 1 .. ((Len(a) + step - 1) \div step) |-> a[(j - 1) * step + 1]]

\* the C-rate of pybamm_model.default_parameter_values, 1C, in tenths as the
\* values of C_rates
default_C_rate == 10

\* the names of the script before the loop; C_rate is the entry of param
dc0 ==
    [i |-> 1, counter |-> 0, key |-> Unbound, value |-> Unbound,
     C_rate |-> default_C_rate,
     comsol_t |-> Unbound, comsol_voltage |-> Unbound, comsol_temperature |-> Unbound,
     tau |-> Unbound, time |-> Unbound, solution |-> Unbound,
     pybamm_voltage |-> Unbound, pybamm_temperature |-> Unbound,
     query |-> Unbound, curve |-> Unbound, error |-> "none", line |-> 0,
     file |-> Unbound, tau_C_rate |-> Unbound, solved_C_rate |-> Unbound]

InitDischarge ==
    /\ script = "plot_discharge_curve"
    /\ pc = "L70"
    /\ data = Unbound
    /\ cm = cm0
    /\ figures = <<>>
    /\ V_av_calls = {}
    /\ dc = dc0
    /\ curves = <<>>
    /\ spline \in Splines
    /\ pp = Unbound

Crash(exception, line, q) ==
    /\ pc' = "crashed"
    /\ dc' = [dc EXCEPT !.error = exception, !.line = line, !.query = q]
    /\ UNCHANGED <<script, data, cm, figures, V_av_calls, curves, spline, pp>>

\* line 73: the file a key names
DataFile(key) == "comsol_data/comsol_1D_" \o key \o "C.pickle"

\* mutant of Updated: the parameter update left out
Updated_stale(g) == g

\* lines 84-85: param.update({"C-rate": value}) and param.update_model
Updated(g) == [g EXCEPT !.C_rate = g.value]

\* lines 70-81: the next dictionary entry, its data set and interpolants
LoadComsol ==
    /\ Running("plot_discharge_curve", "L70")
    /\ dc.i <= Len(C_rates)
    /\ \E comsol_variables \in ComsolFiles :
         LET comsol_t == comsol_variables.time
             comsol_voltage == interp1d(comsol_t, comsol_variables.voltage, interp_kind)
             comsol_temperature ==
                 interp1d(comsol_t, comsol_variables.average_temperature, interp_kind)
         IN  IF comsol_voltage.error # "none" \/ comsol_temperature.error # "none"
             THEN /\ pc' = "crashed"
                  /\ dc' = [dc EXCEPT !.key = C_rates[dc.i][1],
                                      !.value = C_rates[dc.i][2],
                                      !.file = DataFile(C_rates[dc.i][1]),
                                      !.comsol_t = comsol_t,
                                      !.error = "ValueError",
                                      !.line = 76]
                  /\ UNCHANGED <<script, data, cm, figures, V_av_calls, curves, spline, pp>>
             ELSE /\ dc' = [dc EXCEPT !.key = C_rates[dc.i][1],
                                      !.value = C_rates[dc.i][2],
                                      !.file = DataFile(C_rates[dc.i][1]),
                                      !.comsol_t = comsol_t,
                                      !.comsol_voltage = comsol_voltage,
                                      !.comsol_temperature = comsol_temperature]
                  /\ pc' = "L84"
                  /\ UNCHANGED <<script, data, cm, figures, V_av_calls, curves, spline, pp>>

\* lines 84-91: the C-rate set, the time scale read, the model solved at the
\* non-dimensional COMSOL times
UpdateAndSolve ==
    /\ Running("plot_discharge_curve", "L84")
    /\ \E tau \in TimeScales :
         \E solution \in Solutions(DivArray(dc.comsol_t, tau)) :
             dc' = [Updated(dc) EXCEPT !.tau = tau,
                                       !.tau_C_rate = Updated(dc).C_rate,
                                       !.solution = solution,
                                       !.solved_C_rate = Updated(dc).C_rate,
                                       !.time = solution.t]
    /\ pc' = "L95"
    /\ UNCHANGED <<script, data, cm, figures, V_av_calls, curves, spline, pp>>

\* lines 95-107: the times up to the voltage cut-off
CutOff ==
    /\ Running("plot_discharge_curve", "L95")
    /\ LET voltage == ProcessedAt(dc.solution.t, dc.solution.voltage, dc.time)
           voltage_OK == SelectSeq(voltage, LAMBDA v : v > V_cutoff)
       IN  dc' = [dc EXCEPT !.time = SubSeq(dc.time, 1, Len(voltage_OK))]
    /\ pc' = "L110"
    /\ UNCHANGED <<script, data, cm, figures, V_av_calls, curves, spline, pp>>

\* lines 110-123
PostProcess ==
    /\ Running("plot_discharge_curve", "L110")
    /\ dc' = [dc EXCEPT
                !.pybamm_voltage = ProcessedAt(dc.solution.t, dc.solution.voltage, dc.time),
                !.pybamm_temperature =
                    ProcessedAt(dc.solution.t, dc.solution.temperature, dc.time)]
    /\ pc' = "L126"
    /\ UNCHANGED <<script, data, cm, figures, V_av_calls, curves, spline, pp>>

\* lines 126-169: the COMSOL interpolants at the dimensional times, the curves
\* and the difference curves
AddToPlot ==
    /\ Running("plot_discharge_curve", "L126")
    /\ LET query == MulArray(dc.time, dc.tau)
           cv == interp1d_call(dc.comsol_voltage, query)
           cT == interp1d_call(dc.comsol_temperature, query)
       IN  IF cv.error # "none" \/ cT.error # "none"
           THEN Crash("ValueError", 128, query)
           ELSE /\ dc' = [dc EXCEPT
                            !.query = query,
                            !.curve =
                                [comsol_voltage |-> cv.value,
                                 comsol_temperature |-> cT.value,
                                 markers_voltage |-> Strided(cv.value, stride),
                                 markers_temperature |-> Strided(cT.value, stride),
                                 difference_voltage |->
                                     AbsDiff(dc.pybamm_voltage, cv.value),
                                 difference_temperature |->
                                     AbsDiff(dc.pybamm_temperature, cT.value)]]
                /\ curves' = Append(curves,
                                [key |-> dc.key, value |-> dc.value,
                                 file |-> dc.file,
                                 C_rate |-> dc.solved_C_rate,
                                 tau_C_rate |-> dc.tau_C_rate,
                                 color |-> dc.counter,
                                 label |-> IF dc.counter = 0 THEN "COMSOL" ELSE ""])
                /\ pc' = "L172"
                /\ UNCHANGED <<script, data, cm, figures, V_av_calls, spline, pp>>

\* line 172, and back to the loop head; the arrays of the iteration are
\* rebound by the next one before they are read and are let go here
IncreaseCounter ==
    /\ Running("plot_discharge_curve", "L172")
    /\ dc' = [dc0 EXCEPT !.i = dc.i + 1,
                         !.counter = dc.counter + 1,
                         !.key = dc.key,
                         !.value = dc.value,
                         !.C_rate = dc.C_rate,
                         !.tau = dc.tau,
                         !.tau_C_rate = dc.tau_C_rate]
    /\ pc' = "L70"
    /\ UNCHANGED <<script, data, cm, figures, V_av_calls, curves, spline, pp>>

\* lines 177-179, when the dictionary is exhausted
ShowDischarge ==
    /\ Running("plot_discharge_curve", "L70")
    /\ dc.i > Len(C_rates)
    /\ pc' = "done"
    /\ UNCHANGED <<script, data, cm, figures, V_av_calls, dc, curves, spline, pp>>

(* --------- supplementary/plot_potentials_concentrations.py ------------- *)
whole_cell == <<"negative electrode", "separator", "positive electrode">>

\* the float n * 2^e
Float(n, e) == Round(n, 1, e)

\* the submeshes: two cells in each sub-region of the unit cell; the edges
\* 0, 1/8, 1/4 | 1/4, 3/8, 1/2 | 1/2, 3/4, 1 and the nodes between them
Submesh(name) ==
    CASE name = "negative electrode" ->
             [edges |-> <<Float(0, 0), Float(1, -3), Float(1, -2)>>,
              nodes |-> <<Float(1, -4), Float(3, -4)>>]
      [] name = "separator" ->
             [edges |-> <<Float(1, -2), Float(3, -3), Float(1, -1)>>,
              nodes |-> <<Float(5, -4), Float(7, -4)>>]
      [] name = "positive electrode" ->
             [edges |-> <<Float(1, -1), Float(3, -2), Float(1, 0)>>,
              nodes |-> <<Float(5, -3), Float(7, -3)>>]

\* mesh.combine_submeshes(*domain)[0]
\* two aligned submeshes joined
Joined(head, rest) ==
    IF rest.error # "none" THEN rest
    ELSE IF head.edges[Len(head.edges)] # rest.edges[1]
    THEN [error |-> "DomainError"]
    ELSE [error |-> "none",
          edges |-> head.edges \o Tail(rest.edges),
          nodes |-> head.nodes \o rest.nodes]

\* mesh.combine_submeshes(*domain)[0]
RECURSIVE combine_submeshes(_)
combine_submeshes(domain) ==
    IF Len(domain) = 0 THEN [error |-> "IndexError"]
    ELSE IF \E i \in 1 .. Len(domain) : domain[i] \notin Range(whole_cell)
    THEN [error |-> "KeyError"]
    ELSE IF Len(domain) = 1
    THEN [error |-> "none", edges |-> Submesh(domain[1]).edges,
          nodes |-> Submesh(domain[1]).nodes]
    ELSE Joined(Submesh(domain[1]), combine_submeshes(Tail(domain)))

\* the coordinates of the COMSOL data [m], for a cell of length 8
x_n_data == <<Float(0, 0), Float(1, -1), Float(1, 0), Float(3, -1), Float(2, 0)>>
x_s_data == <<Float(2, 0), Float(5, -1), Float(3, 0), Float(7, -1), Float(4, 0)>>
x_p_data == <<Float(4, 0), Float(5, 0), Float(6, 0), Float(7, 0), Float(8, 0)>>
x_data == x_n_data \o Tail(x_s_data) \o Tail(x_p_data)

\* the statements of lines 100-123: the name bound, the variable, the domain
Statements ==
    << [line |-> 100, name |-> "comsol_c_n_surf", variable |-> "c_n_surf",
        domain |-> <<"negative electrode">>, eval_on_edges |-> FALSE],
       [line |-> 101, name |-> "comsol_c_e", variable |-> "c_e",
        domain |-> whole_cell, eval_on_edges |-> FALSE],
       [line |-> 102, name |-> "comsol_c_p_surf", variable |-> "c_p_surf",
        domain |-> <<"positive electrode">>, eval_on_edges |-> FALSE],
       [line |-> 103, name |-> "comsol_phi_n", variable |-> "phi_n",
        domain |-> <<"negative electrode">>, eval_on_edges |-> FALSE],
       [line |-> 104, name |-> "comsol_phi_e", variable |-> "phi_e",
        domain |-> whole_cell, eval_on_edges |-> FALSE],
       [line |-> 105, name |-> "comsol_phi_p", variable |-> "phi_p",
        domain |-> <<"positive electrode">>, eval_on_edges |-> FALSE],
       [line |-> 106, name |-> "comsol_i_s_n", variable |-> "i_s_n",
        domain |-> <<"negative electrode">>, eval_on_edges |-> TRUE],
       [line |-> 107, name |-> "comsol_i_s_p", variable |-> "i_s_p",
        domain |-> <<"positive electrode">>, eval_on_edges |-> TRUE],
       [line |-> 108, name |-> "comsol_i_e_n", variable |-> "i_e_n",
        domain |-> <<"negative electrode">>, eval_on_edges |-> TRUE],
       [line |-> 109, name |-> "comsol_i_e_p", variable |-> "i_e_p",
        domain |-> <<"positive electrode">>, eval_on_edges |-> TRUE],
       [line |-> 110, name |-> "comsol_voltage", variable |-> "voltage",
        domain |-> <<>>, eval_on_edges |-> FALSE],
       [line |-> 113, name |-> "comsol_temperature", variable |-> "temperature",
        domain |-> whole_cell, eval_on_edges |-> FALSE],
       [line |-> 114, name |-> "comsol_temperature_av", variable |-> "average temperature",
        domain |-> <<>>, eval_on_edges |-> FALSE],
       [line |-> 117, name |-> "comsol_q_irrev_n", variable |-> "Q_irrev_n",
        domain |-> <<"negative electrode">>, eval_on_edges |-> FALSE],
       [line |-> 118, name |-> "comsol_q_irrev_p", variable |-> "Q_irrev_p",
        domain |-> <<"positive electrode">>, eval_on_edges |-> FALSE],
       [line |-> 119, name |-> "comsol_q_rev_n", variable |-> "Q_rev_n",
        domain |-> <<"negative electrode">>, eval_on_edges |-> FALSE],
       [line |-> 120, name |-> "comsol_q_rev_p", variable |-> "Q_rev_p",
        domain |-> <<"positive electrode">>, eval_on_edges |-> FALSE],
       [line |-> 121, name |-> "comsol_q_total_n", variable |-> "Q_total_n",
        domain |-> <<"negative electrode">>, eval_on_edges |-> FALSE],
       [line |-> 122, name |-> "comsol_q_total_s", variable |-> "Q_total_s",
        domain |-> <<"separator">>, eval_on_edges |-> FALSE],
       [line |-> 123, name |-> "comsol_q_total_p", variable |-> "Q_total_p",
        domain |-> <<"positive electrode">>, eval_on_edges |-> FALSE] >>

StatementOf(variable) ==
    CHOOSE i \in 1 .. Len(Statements) : Statements[i].variable = variable

\* the place of a sub-region's first coordinate among those of the whole cell
FirstOf(domain) ==
    CASE domain = <<"separator">> -> 4
      [] domain = <<"positive electrode">> -> 8
      [] OTHER -> 0

\* the coordinates the data of a domain were exported on
DataCoordinates(domain) ==
    CASE domain = <<"negative electrode">> -> x_n_data
      [] domain = <<"separator">> -> x_s_data
      [] domain = <<"positive electrode">> -> x_p_data
      [] OTHER -> x_data

\* one exported field: a row for every coordinate, a column for every time
ComsolField(variable, c) ==
    LET st == Statements[StatementOf(variable)]
    IN  Array([k \in 1 .. Len(DataCoordinates(st.domain)) |->
            Array([j \in 1 .. NS |->
                      StatementOf(variable) + c + FirstOf(st.domain) + k + 2 * j])])

CoordinateKeys == {"x_n", "x_s", "x_p", "x"}
SeriesKeys == {"time", "voltage", "average temperature"}
FieldKeys ==
    { Statements[i].variable : i \in { i \in 1 .. Len(Statements) : Statements[i].domain # <<>> } }

\* pickle.load(...): the dictionary of the data set; a key may be absent
ComsolVariables(c, absent) ==
    [key \in (CoordinateKeys \cup SeriesKeys \cup FieldKeys) \ {absent} |->
        CASE key = "x_n" -> x_n_data
          [] key = "x_s" -> x_s_data
          [] key = "x_p" -> x_p_data
          [] key = "x" -> x_data
          [] key = "time" -> ComsolTimes
          [] key = "voltage" -> [j \in 1 .. NS |-> V_cutoff + c + NS - j]
          [] key = "average temperature" -> [j \in 1 .. NS |-> 20 + 2 * j + c]
          [] OTHER -> ComsolField(key, c)]

AbsentKeys == {"none", "x_n", "x_s", "x_p", "x", "phi_e"}

\* a[::2]: every other row of an array
EveryOther(a) == [k \in 1 .. ((Len(a) + 1) \div 2) |-> a[2 * k - 1]]

\* the axis a data set was exported coarsely on, three of its nodes kept
CoarseAxes == {"none", "time", "x_s"}

\* the dictionary of a data set exported with three time samples, or with
\* three coordinates in the separator
Coarsened(comsol_variables, coarse) ==
    [key \in DOMAIN comsol_variables |->
        CASE coarse = "time" /\ key \in SeriesKeys -> Last3(comsol_variables[key])
          [] coarse = "time" /\ key \in FieldKeys ->
                 Array([k \in 1 .. Len(comsol_variables[key]) |->
                           Last3(comsol_variables[key][k])])
          [] coarse = "x_s" /\ (key = "x_s" \/ key = "Q_total_s") ->
                 EveryOther(comsol_variables[key])
          [] OTHER -> comsol_variables[key]]

\* the data sets: the full export with a key it may lack, and the coarse ones
DataSets ==
    { ComsolVariables(c, absent) : c \in Vals, absent \in AbsentKeys }
    \cup { Coarsened(ComsolVariables(0, "none"), coarse) : coarse \in CoarseAxes }

\* L_x of the parameter set
LengthScales == {Float(8, 0), Float(15, -1)}

\* the model variables the plots read, and the exported fields they match
PlottedVariables ==
    << <<"Negative electrode potential [V]", "phi_n", <<"negative electrode">> >>,
       <<"Positive electrode potential [V]", "phi_p", <<"positive electrode">> >>,
       <<"Electrolyte potential [V]", "phi_e", whole_cell>>,
       <<"Negative particle surface concentration [mol.m-3]", "c_n_surf",
         <<"negative electrode">> >>,
       <<"Positive particle surface concentration [mol.m-3]", "c_p_surf",
         <<"positive electrode">> >>,
       <<"Electrolyte concentration [mol.m-3]", "c_e", whole_cell>> >>

\* solver.solve(pybamm_model, time): the model variables on the mesh nodes at
\* the times asked for
PybammSolution(time, d) ==
    [t |-> time,
     y |-> Array([i \in 1 .. Len(PlottedVariables) |->
              LET pv == PlottedVariables[i]
                  n == Len(combine_submeshes(pv[3]).nodes)
              IN  [name |-> pv[1],
                   entries |-> Array([x \in 1 .. n |->
                       Array([j \in 1 .. Len(time) |->
                           StatementOf(pv[2]) + d + FirstOf(pv[3]) + 2 * x + 2 * j])])]])]

\* mutant of CoordinateKey: every recognised domain given the coordinates of
\* the whole cell
CoordinateKey_whole_cell(domain) ==
    IF domain \in {<<"negative electrode">>, <<"separator">>, <<"positive electrode">>,
                   whole_cell}
    THEN "x" ELSE Unbound

\* lines 76-83: the key of the coordinates of a domain; no branch binds
\* comsol_x for any other domain
CoordinateKey(domain) ==
    CASE domain = <<"negative electrode">> -> "x_n"
      [] domain = <<"separator">> -> "x_s"
      [] domain = <<"positive electrode">> -> "x_p"
      [] domain = whole_cell -> "x"
      [] OTHER -> Unbound

\* lines 85-88: the mesh points of the domain in metres
pybamm_x(domain, eval_on_edges, L_x) ==
    MulArray(IF eval_on_edges THEN combine_submeshes(domain).edges
             ELSE combine_submeshes(domain).nodes, L_x)

\* variable[:, j]
Column(variable, j) == Array([k \in 1 .. Len(variable) |-> variable[k][j]])

\* line 89: interp.interp1d(comsol_x, variable, axis=0, kind=interp_kind)(x_new)
SpatialInterpolation(comsol_x, variable, x_new) ==
    IF Len(comsol_x) # Len(variable) THEN [error |-> "ValueError"]
    ELSE IF interp1d(comsol_x, Column(variable, 1), interp_kind).error # "none"
    THEN [error |-> "ValueError"]
    ELSE IF Raises(interp1d(comsol_x, Column(variable, 1), interp_kind), x_new)
    THEN [error |-> "ValueError"]
    ELSE [error |-> "none",
          value |-> Array([i \in 1 .. Len(x_new) |->
                        Array([j \in 1 .. Len(variable[1]) |->
                            ValueAt(interp1d(comsol_x, Column(variable, j), interp_kind),
                                    x_new[i])])])]

\* lines 91-97: the pybamm.Function of myinterp and pybamm.t * tau; variable is
\* the array myinterp closes over
Function(variable_name, domain, comsol_x, x_new, variable) ==
    IF variable.error # "none" THEN [error |-> variable.error]
    ELSE [error |-> "none",
          kind |-> "Function",
          name |-> variable_name \o "_comsol",
          domain |-> domain,
          comsol_x |-> comsol_x,
          pybamm_x |-> x_new,
          variable |-> variable.value]

\* get_interp_fun(variable_name, domain, eval_on_edges), lines 69-97, with the
\* globals it reads; the function built, or the exception raised on the way
get_interp_fun(comsol_variables, L_x, variable_name, domain, eval_on_edges) ==
    IF variable_name \notin DOMAIN comsol_variables THEN [error |-> "KeyError"]
    ELSE IF CoordinateKey(domain) # Unbound
            /\ CoordinateKey(domain) \notin DOMAIN comsol_variables
    THEN [error |-> "KeyError"]
    ELSE IF combine_submeshes(domain).error # "none"
    THEN [error |-> combine_submeshes(domain).error]
    ELSE IF CoordinateKey(domain) = Unbound THEN [error |-> "UnboundLocalError"]
    ELSE Function(variable_name, domain, CoordinateKey(domain),
                  pybamm_x(domain, eval_on_edges, L_x),
                  SpatialInterpolation(comsol_variables[CoordinateKey(domain)],
                                       comsol_variables[variable_name],
                                       pybamm_x(domain, eval_on_edges, L_x)))

\* the interpolation a call of get_interp_fun performs on its way to the
\* function it returns: line 89, along the spatial axis
SpatialRemap(fun) == << [axis |-> "space", line |-> 89, name |-> fun.name] >>

\* mutant of TimeQueries: the spatial interpolation repeated at every query
TimeQueries_lazy(fun, n) ==
    [j \in 1 .. 2 * n |-> [axis |-> IF j % 2 = 1 THEN "space" ELSE "time",
                           line |-> IF j % 2 = 1 THEN 89 ELSE 92,
                           name |-> fun.name]]

\* the interpolations the function performs when it is evaluated at n times:
\* myinterp, line 92, once for each, along the time axis of the array it
\* closes over
TimeQueries(fun, n) ==
    [j \in 1 .. n |-> [axis |-> "time", line |-> 92, name |-> fun.name]]

\* myinterp(t) of a function built by get_interp_fun, lines 91-92
myinterp(fun, comsol_t, t) ==
    IF interp1d(comsol_t, fun.variable[1], interp_kind).error # "none"
    THEN [error |-> "ValueError"]
    ELSE IF OutOfRange(interp1d(comsol_t, fun.variable[1], interp_kind), t)
    THEN [error |-> "ValueError"]
    ELSE [error |-> "none",
          value |-> Array([i \in 1 .. Len(fun.variable) |->
                        <<ValueAt(interp1d(comsol_t, fun.variable[i], interp_kind), t)>>])]

\* pybamm.ProcessedVariable(fun, solution.t, solution.y, mesh=mesh) for a
\* pybamm.Function(myinterp, pybamm.t * tau): the function evaluated at every
\* solution time
ProcessedFunction(fun, comsol_t, tau, solution) ==
    IF \E j \in 1 .. Len(solution.t) :
           myinterp(fun, comsol_t, FMul(solution.t[j], tau)).error # "none"
    THEN [error |-> "ValueError"]
    ELSE [error |-> "none",
          t |-> solution.t,
          queries |-> MulArray(solution.t, tau),
          entries |-> Array([i \in 1 .. Len(fun.variable) |->
              Array([j \in 1 .. Len(solution.t) |->
                  myinterp(fun, comsol_t, FMul(solution.t[j], tau)).value[i][1]])])]

\* pybamm.ProcessedVariable(pybamm_model.variables[name], solution.t, solution.y, ...)
ProcessedModelVariable(name, solution) ==
    [error |-> "none", t |-> solution.t, queries |-> solution.t,
     entries |-> solution.y[CHOOSE i \in 1 .. Len(solution.y) :
                                solution.y[i].name = name].entries]

\* a processed variable at (x=the mesh points it lives on, t=t)
ProcessedCall(processed, t) ==
    Array([i \in 1 .. Len(processed.entries) |->
        ValueAt([x |-> processed.t, y |-> processed.entries[i]], t)])

\* plot_times, line 434: a time of the data set and one between two of them
plot_times == <<Float(Pow2(Precision) - 5, 0), Float(Pow2(Precision) - 4, 0)>>

\* no plotting function is running
NoFrame == [function |-> "none"]

\* the names of the script once the data set is loaded
pp0(comsol_variables) ==
    [comsol_variables |-> comsol_variables,
     tau |-> Unbound, time |-> Unbound, solution |-> Unbound,
     comsol_t |-> Unbound, L_x |-> Unbound,
     next |-> 1,
     names |-> [i \in 1 .. Len(Statements) |-> NoFunction],
     comsol_model |-> Unbound,
     frame |-> NoFrame,
     interpolations |-> <<>>,
     error |-> "none", line |-> 0]

InitPotentials ==
    /\ script = "plot_potentials_concentrations"
    /\ pc = "L52"
    /\ data = Unbound
    /\ cm = cm0
    /\ figures = <<>>
    /\ V_av_calls = {}
    /\ dc = Unbound
    /\ curves = <<>>
    /\ spline \in Splines
    /\ \E comsol_variables \in DataSets : pp = pp0(comsol_variables)

CrashPotentials(exception, line) ==
    /\ pc' = "crashed"
    /\ pp' = [pp EXCEPT !.error = exception, !.line = line]
    /\ UNCHANGED <<script, data, cm, figures, V_av_calls, dc, curves, spline>>

\* lines 52-66: the time scale, the model solved at the non-dimensional
\* COMSOL times, comsol_t and L_x
SolveAtComsolTimes ==
    /\ Running("plot_potentials_concentrations", "L52")
    /\ IF "time" \notin DOMAIN pp.comsol_variables
       THEN CrashPotentials("KeyError", 55)
       ELSE \E tau \in TimeScales, L_x \in LengthScales, d \in Vals :
              LET time == DivArray(pp.comsol_variables["time"], tau)
              IN  /\ pp' = [pp EXCEPT !.tau = tau,
                                      !.time = time,
                                      !.solution = PybammSolution(time, d),
                                      !.comsol_t = pp.comsol_variables["time"],
                                      !.L_x = L_x]
                  /\ pc' = "L100"
                  /\ UNCHANGED <<script, data, cm, figures, V_av_calls, dc, curves, spline>>

\* one statement of lines 100-123
Construct ==
    /\ Running("plot_potentials_concentrations", "L100")
    /\ pp.next <= Len(Statements)
    /\ \E st \in { Statements[pp.next] } :
       \E built \in {
               IF st.domain # <<>>
               THEN get_interp_fun(pp.comsol_variables, pp.L_x,
                                   st.variable, st.domain, st.eval_on_edges)
               ELSE IF st.variable \notin DOMAIN pp.comsol_variables
               THEN [error |-> "KeyError"]
               ELSE interp1d(pp.comsol_t, pp.comsol_variables[st.variable], interp_kind) } :
           IF built.error # "none"
           THEN CrashPotentials(built.error, st.line)
           ELSE /\ pp' = [pp EXCEPT !.names[pp.next] = built,
                                    !.next = pp.next + 1,
                                    !.interpolations =
                                        IF st.domain # <<>>
                                        THEN pp.interpolations \o SpatialRemap(built)
                                        ELSE pp.interpolations]
                /\ pc' = "L100"
                /\ UNCHANGED <<script, data, cm, figures, V_av_calls, dc, curves, spline>>

\* the name bound by one of the statements
Named(name) ==
    pp.names[CHOOSE i \in 1 .. Len(Statements) : Statements[i].name = name]

\* lines 126-153: comsol_model.variables
MakeComsolModel ==
    /\ Running("plot_potentials_concentrations", "L100")
    /\ pp.next > Len(Statements)
    /\ pp' = [pp EXCEPT !.comsol_model =
         [name \in { PlottedVariables[i][1] : i \in 1 .. Len(PlottedVariables) } |->
            CASE name = "Negative particle surface concentration [mol.m-3]" ->
                     Named("comsol_c_n_surf")
              [] name = "Electrolyte concentration [mol.m-3]" -> Named("comsol_c_e")
              [] name = "Positive particle surface concentration [mol.m-3]" ->
                     Named("comsol_c_p_surf")
              [] name = "Negative electrode potential [V]" -> Named("comsol_phi_n")
              [] name = "Electrolyte potential [V]" -> Named("comsol_phi_e")
              [] name = "Positive electrode potential [V]" -> Named("comsol_phi_p")]]
    /\ pc' = "L444"
    /\ UNCHANGED <<script, data, cm, figures, V_av_calls, dc, curves, spline>>

\* the call of a plotting function at line 444, 447, 457 or 463
CallSite(line) ==
    /\ Running("plot_potentials_concentrations", line)
    /\ pp.frame.function = "none"

\* the statement after a call
Return ==
    CASE pc = "L444" -> "L447"
      [] pc = "L447" -> "L457"
      [] pc = "L457" -> "L463"
      [] pc = "L463" -> "done"

\* electrode_comparison_plot(var, labels, plot_times=plot_times), lines 199-229:
\* the four processed variables
EnterElectrodePlot ==
    /\ CallSite("L444") \/ CallSite("L457")
    /\ \E var \in { IF pc = "L444" THEN "electrode potential [V]"
                   ELSE "particle surface concentration [mol.m-3]" } :
       \E comsol_var_n_fun \in { ProcessedFunction(pp.comsol_model["Negative " \o var],
                                                   pp.comsol_t, pp.tau, pp.solution) },
          comsol_var_p_fun \in { ProcessedFunction(pp.comsol_model["Positive " \o var],
                                                   pp.comsol_t, pp.tau, pp.solution) } :
           IF comsol_var_n_fun.error # "none"
           THEN CrashPotentials(comsol_var_n_fun.error, 215)
           ELSE IF comsol_var_p_fun.error # "none"
           THEN CrashPotentials(comsol_var_p_fun.error, 220)
           ELSE /\ pp' = [pp EXCEPT
                            !.interpolations =
                                pp.interpolations
                                \o TimeQueries(pp.comsol_model["Negative " \o var],
                                               Len(pp.solution.t))
                                \o TimeQueries(pp.comsol_model["Positive " \o var],
                                               Len(pp.solution.t)),
                            !.frame =
                            [function |-> "electrode_comparison_plot",
                             var |-> var,
                             pybamm_var_n_fun |->
                                 ProcessedModelVariable("Negative " \o var, pp.solution),
                             pybamm_var_p_fun |->
                                 ProcessedModelVariable("Positive " \o var, pp.solution),
                             comsol_var_n_fun |-> comsol_var_n_fun,
                             comsol_var_p_fun |-> comsol_var_p_fun,
                             ind |-> 1,
                             lines |-> <<>>]]
                /\ UNCHANGED <<script, pc, data, cm, figures, V_av_calls, dc, curves, spline>>

\* lines 232-278: the curves of one plot time
ElectrodePlotTime ==
    /\ script = "plot_potentials_concentrations"
    /\ pc \in {"L444", "L457"}
    /\ pp.frame.function = "electrode_comparison_plot"
    /\ pp.frame.ind <= Len(plot_times)
    /\ \E t \in { plot_times[pp.frame.ind] } :
       \E comsol_var_n \in { ProcessedCall(pp.frame.comsol_var_n_fun, FDiv(t, pp.tau)) },
          pybamm_var_n \in { ProcessedCall(pp.frame.pybamm_var_n_fun, FDiv(t, pp.tau)) },
          comsol_var_p \in { ProcessedCall(pp.frame.comsol_var_p_fun, FDiv(t, pp.tau)) },
          pybamm_var_p \in { ProcessedCall(pp.frame.pybamm_var_p_fun, FDiv(t, pp.tau)) } :
           pp' = [pp EXCEPT !.frame.ind = pp.frame.ind + 1,
                            !.frame.lines = Append(pp.frame.lines,
                                [t |-> t,
                                 comsol_var_n |-> comsol_var_n,
                                 pybamm_var_n |-> pybamm_var_n,
                                 error_n |-> AbsDiff(pybamm_var_n, comsol_var_n),
                                 comsol_var_p |-> comsol_var_p,
                                 pybamm_var_p |-> pybamm_var_p,
                                 error_p |-> AbsDiff(pybamm_var_p, comsol_var_p)])]
    /\ UNCHANGED <<script, pc, data, cm, figures, V_av_calls, dc, curves, spline>>

\* lines 281-323: the figure is finished
LeaveElectrodePlot ==
    /\ script = "plot_potentials_concentrations"
    /\ pc \in {"L444", "L457"}
    /\ pp.frame.function = "electrode_comparison_plot"
    /\ pp.frame.ind > Len(plot_times)
    /\ figures' = Append(figures, [function |-> pp.frame.function,
                                   var |-> pp.frame.var,
                                   lines |-> pp.frame.lines])
    /\ pp' = [pp EXCEPT !.frame = NoFrame]
    /\ pc' = Return
    /\ UNCHANGED <<script, data, cm, V_av_calls, dc, curves, spline>>

\* whole_cell_comparison_plot(var, labels, plot_times=plot_times), lines 350-368
EnterWholeCellPlot ==
    /\ CallSite("L447") \/ CallSite("L463")
    /\ \E var \in { IF pc = "L447" THEN "Electrolyte potential [V]"
                   ELSE "Electrolyte concentration [mol.m-3]" } :
       \E comsol_var_fun \in { ProcessedFunction(pp.comsol_model[var],
                                                 pp.comsol_t, pp.tau, pp.solution) } :
           IF comsol_var_fun.error # "none"
           THEN CrashPotentials(comsol_var_fun.error, 361)
           ELSE /\ pp' = [pp EXCEPT
                            !.interpolations =
                                pp.interpolations
                                \o TimeQueries(pp.comsol_model[var], Len(pp.solution.t)),
                            !.frame =
                            [function |-> "whole_cell_comparison_plot",
                             var |-> var,
                             pybamm_var_fun |-> ProcessedModelVariable(var, pp.solution),
                             comsol_var_fun |-> comsol_var_fun,
                             ind |-> 1,
                             lines |-> <<>>]]
                /\ UNCHANGED <<script, pc, data, cm, figures, V_av_calls, dc, curves, spline>>

\* lines 371-397: the curves of one plot time
WholeCellPlotTime ==
    /\ script = "plot_potentials_concentrations"
    /\ pc \in {"L447", "L463"}
    /\ pp.frame.function = "whole_cell_comparison_plot"
    /\ pp.frame.ind <= Len(plot_times)
    /\ \E t \in { plot_times[pp.frame.ind] } :
       \E comsol_var \in { ProcessedCall(pp.frame.comsol_var_fun, FDiv(t, pp.tau)) },
          pybamm_var \in { ProcessedCall(pp.frame.pybamm_var_fun, FDiv(t, pp.tau)) } :
           pp' = [pp EXCEPT !.frame.ind = pp.frame.ind + 1,
                            !.frame.lines = Append(pp.frame.lines,
                                [t |-> t,
                                 comsol_var |-> comsol_var,
                                 pybamm_var |-> pybamm_var,
                                 error |-> AbsDiff(pybamm_var, comsol_var)])]
    /\ UNCHANGED <<script, pc, data, cm, figures, V_av_calls, dc, curves, spline>>

\* lines 399-430: the figure is finished
LeaveWholeCellPlot ==
    /\ script = "plot_potentials_concentrations"
    /\ pc \in {"L447", "L463"}
    /\ pp.frame.function = "whole_cell_comparison_plot"
    /\ pp.frame.ind > Len(plot_times)
    /\ figures' = Append(figures, [function |-> pp.frame.function,
                                   var |-> pp.frame.var,
                                   lines |-> pp.frame.lines])
    /\ pp' = [pp EXCEPT !.frame = NoFrame]
    /\ pc' = Return
    /\ UNCHANGED <<script, data, cm, V_av_calls, dc, curves, spline>>

(* ------------------ get_interp_fun called on its own ------------------- *)
\* the lists a caller can pass as domain: the four the function recognises,
\* other combinations of sub-regions, and a name the mesh does not have
Domains ==
    { <<"negative electrode">>, <<"separator">>, <<"positive electrode">>, whole_cell,
      <<"negative electrode", "separator">>, <<"separator", "positive electrode">>,
      <<"negative electrode", "positive electrode">>, <<"current collector">> }

\* the variable names passed: a field on the coordinates of each domain
CallVariables == {"c_n_surf", "Q_total_s", "c_p_surf", "phi_e"}

\* the globals of lines 48-66 and the arguments of one call
InitGetInterpFun ==
    /\ script = "get_interp_fun"
    /\ pc = "L69"
    /\ data = Unbound
    /\ cm = cm0
    /\ figures = <<>>
    /\ V_av_calls = {}
    /\ dc = Unbound
    /\ curves = <<>>
    /\ spline \in Splines
    /\ \E comsol_variables \in DataSets, L_x \in LengthScales,
          variable_name \in CallVariables, domain \in Domains, eval_on_edges \in BOOLEAN :
           pp = [comsol_variables |-> comsol_variables,
                 L_x |-> L_x,
                 variable_name |-> variable_name,
                 domain |-> domain,
                 eval_on_edges |-> eval_on_edges,
                 fun |-> NoFunction,
                 interpolations |-> <<>>,
                 error |-> "none"]

\* lines 69-97: the function returned, or the exception that leaves the call
CallGetInterpFun ==
    /\ Running("get_interp_fun", "L69")
    /\ \E fun \in { get_interp_fun(pp.comsol_variables, pp.L_x, pp.variable_name,
                                   pp.domain, pp.eval_on_edges) } :
           IF fun.error # "none"
           THEN /\ pc' = "raised"
                /\ pp' = [pp EXCEPT !.error = fun.error]
           ELSE /\ pc' = "returned"
                /\ pp' = [pp EXCEPT !.fun = fun, !.interpolations = SpatialRemap(fun)]
    /\ UNCHANGED <<script, data, cm, figures, V_av_calls, dc, curves, spline>>

InitSupplementary == InitDischarge \/ InitPotentials \/ InitGetInterpFun

NextSupplementary ==
    \/ LoadComsol
    \/ UpdateAndSolve
    \/ CutOff
    \/ PostProcess
    \/ AddToPlot
    \/ IncreaseCounter
    \/ ShowDischarge
    \/ SolveAtComsolTimes
    \/ Construct
    \/ MakeComsolModel
    \/ EnterElectrodePlot
    \/ ElectrodePlotTime
    \/ LeaveElectrodePlot
    \/ EnterWholeCellPlot
    \/ WholeCellPlotTime
    \/ LeaveWholeCellPlot
    \/ CallGetInterpFun

SpecSupplementary == InitSupplementary /\ [][NextSupplementary]_vars

(* --------------------------- specification ----------------------------- *)
Init == InitCompare

Next ==
    \/ EvaluateR_cc
    \/ ProcessAverages
    \/ GetProcessedPotentials
    \/ DefineNegative
    \/ PlotNegative
    \/ DefinePositive
    \/ PlotPositive
    \/ DefineCurrent
    \/ PlotCurrent
    \/ DefineTemperature
    \/ PlotTemperature

Spec == Init /\ [][Next]_vars

(* ------------------------------ claims --------------------------------- *)
\* the figure of a variable, once plotted
FiguresOf(var) == { k \in 1 .. Len(figures) : figures[k].var = var }
\* the evaluations one figure holds: the full grid and every single instant
EvaluationsOf(k) ==
    {figures[k].full} \cup { figures[k].slices[s] : s \in 1 .. Len(figures[k].slices) }
\* query time vectors (one instant, or two with repetition) and lists of points
TQueries == UNION { [1 .. n -> Times] : n \in 1 .. 2 }
ZLists == { [i \in 1 .. n |-> i] : n \in 1 .. NZ } \cup { [i \in 1 .. NZ |-> NZ + 1 - i] }
IsArray2D(A, n, m) == Len(A) = n /\ \A i \in 1 .. n : Len(A[i]) = m
IsDef(f, line) == f.kind = "def" /\ f.line = line
CurrentBound == script = "compare_models" /\ IsDef(cm.pybamm_bar_var_fun, 248)
TemperatureBound == script = "compare_models" /\ IsDef(cm.pybamm_bar_var_fun, 303)

\* C1: every evaluation of V_av at a time t returned
\* V_terminal_average(t) - I_total(t) * R_effective, with the one scalar
\* R_effective of the current-collector solution, the same for every t.
C1_V_av_is_corrected_average ==
    \A c \in V_av_calls :
        /\ c.R_cc = data.R
        /\ Len(c.value) = Len(c.t)
        /\ \A j \in 1 .. Len(c.t) :
               c.value[j] = AverageVariable("Terminal voltage", data.av)[c.t[j]]
                            - AverageVariable("Total current density", data.av)[c.t[j]] * data.R

C1_Witness ==
    \E c \in V_av_calls :
        /\ Len(c.t) >= 2
        /\ data.R > 1
        /\ data.av[c.t[1]].i # data.av[c.t[2]].i
        /\ c.value[1] # c.value[2]

\* C2: the DFNCC reconstruction of a laterally uniform quantity is a pure
\* broadcast: at every query time all lateral points get the same value, the
\* scalar time series at that time (minus T_ref for the temperature).
C2_broadcast_is_uniform ==
    /\ CurrentBound =>
         \A t \in TQueries \cup {t_plot}, z \in ZLists :
             LET A == pybamm_bar_var_fun_current(cm, t, z)
             IN  /\ IsArray2D(A, Len(z), Len(t))
                 /\ \A i \in 1 .. Len(z), j \in 1 .. Len(t) :
                        A[i][j] = AverageVariable("Current collector current density [A.m-2]",
                                                  data.av)[t[j]]
    /\ TemperatureBound =>
         \A t \in TQueries \cup {t_plot}, z \in ZLists :
             LET A == pybamm_bar_var_fun_temperature(cm, t, z)
             IN  /\ IsArray2D(A, Len(z), Len(t))
                 /\ \A i \in 1 .. Len(z), j \in 1 .. Len(t) :
                        A[i][j] = AverageVariable("X-averaged cell temperature [K]",
                                                  data.av)[t[j]] - T_ref_param
    /\ \A k \in FiguresOf("Current collector current density [A.m-2]")
               \cup FiguresOf("X-averaged cell temperature [K]") :
         \A e \in EvaluationsOf(k) :
             /\ IsArray2D(e.bar, NZ, Len(e.t))
             /\ \A i, i2 \in 1 .. NZ, j \in 1 .. Len(e.t) : e.bar[i][j] = e.bar[i2][j]

C2_Witness ==
    \E k \in FiguresOf("X-averaged cell temperature [K]") :
        /\ NZ >= 2
        /\ Len(figures[k].full.t) >= 2
        /\ figures[k].full.bar[1][1] # figures[k].full.bar[1][2]
        /\ figures[k].full.bar[1][1] = figures[k].full.bar[NZ][1]

\* C3: for every instant t0 and list of points z, reconstruct([t0], z) and
\* reconstruct([t0, t0], z)[0] hold the same values (compared as numpy
\* compares them, entry against entry).
C3_single_instant_agrees ==
    /\ CurrentBound =>
         \A t0 \in Times, z \in ZLists :
             LET one == pybamm_bar_var_fun_current(cm, <<t0>>, z)
                 two == pybamm_bar_var_fun_current(cm, <<t0, t0>>, z)
             IN  /\ Len(one) = Len(two)
                 /\ \A i \in 1 .. Len(one), j \in 1 .. Len(two[1]) : one[i][1] = two[1][j]
                 /\ \A i \in 1 .. Len(one) : one[i][1] = two[i][1]
    /\ TemperatureBound =>
         \A t0 \in Times, z \in ZLists :
             LET one == pybamm_bar_var_fun_temperature(cm, <<t0>>, z)
                 two == pybamm_bar_var_fun_temperature(cm, <<t0, t0>>, z)
             IN  /\ Len(one) = Len(two)
                 /\ \A i \in 1 .. Len(one), j \in 1 .. Len(two[1]) : one[i][1] = two[1][j]
                 /\ \A i \in 1 .. Len(one) : one[i][1] = two[i][1]

C3_Witness ==
    \E k \in FiguresOf("X-averaged cell temperature [K]") :
        \E s \in 1 .. Len(figures[k].slices) :
            /\ TemperatureBound
            /\ figures[k].slices[s].bar[NZ][1] # 0
            /\ figures[k].slices[s].bar
                   = pybamm_bar_var_fun_temperature(cm, <<t_slices[s]>>, z_plot)
            /\ figures[k].slices[s].bar[NZ][1]
                   = pybamm_bar_var_fun_temperature(cm, <<t_slices[s], t_slices[s]>>, z_plot)[1][2]

\* C4: for a one-element t and n >= 1 points the broadcast returns a 2-D
\* array of shape (n, 1), space first as in the general branch: the shape the
\* general branch returns for the same t and z.
C4_single_instant_shape ==
    /\ CurrentBound =>
         \A t0 \in Times, z \in ZLists :
             LET A == pybamm_bar_var_fun_current(cm, <<t0>>, z)
             IN  /\ IsArray2D(A, Len(z), 1)
                 /\ Shape(A) = Shape(current_general(cm, <<t0>>, z))
    /\ TemperatureBound =>
         \A t0 \in Times, z \in ZLists :
             LET A == pybamm_bar_var_fun_temperature(cm, <<t0>>, z)
             IN  /\ IsArray2D(A, Len(z), 1)
                 /\ Shape(A) = Shape(temperature_general(cm, <<t0>>, z))

C4_Witness ==
    \E k \in FiguresOf("Current collector current density [A.m-2]") :
        /\ NZ >= 2
        /\ CurrentBound
        /\ Shape(figures[k].slices[1].bar) = <<NZ, 1>>
        /\ Shape(figures[k].slices[1].bar) = Shape(figures[k].slices[1].comsol)

\* C5: the negative-collector reconstruction is compared as it is (referenced
\* to zero); from the positive-collector reconstruction the reconstructed
\* dimensional terminal voltage (U_p_ref - U_n_ref) + V_av(t) * potential_scale
\* is subtracted at every (t, z), and from the COMSOL and the 1+1D potentials
\* the terminal voltage of their own model at the same t.
C5_collector_references ==
    LET Vt == AverageVariable("Terminal voltage", data.av)
        It == AverageVariable("Total current density", data.av)
        Vav(t) == Vt[t] - It[t] * data.R
        neg == "Negative current collector potential [V]"
        pos == "Positive current collector potential [V]"
    IN  /\ \A k \in FiguresOf(neg) : \A e \in EvaluationsOf(k) :
               /\ IsArray2D(e.bar, NZ, Len(e.t))
               /\ \A i \in 1 .. NZ, j \in 1 .. Len(e.t) :
                      /\ e.bar[i][j] = R_cn(z_plot[i]) * It[e.t[j]] * potential_scale
                      /\ e.comsol[i][j] = FieldVariable(neg, data.comsol)[z_plot[i]][e.t[j]]
                      /\ e.pybamm[i][j] = FieldVariable(neg, data.dfn)[z_plot[i]][e.t[j]]
        /\ \A k \in FiguresOf(pos) : \A e \in EvaluationsOf(k) :
               /\ IsArray2D(e.bar, NZ, Len(e.t))
               /\ IsArray2D(e.comsol, NZ, Len(e.t))
               /\ IsArray2D(e.pybamm, NZ, Len(e.t))
               /\ \A i \in 1 .. NZ, j \in 1 .. Len(e.t) :
                      /\ e.bar[i][j] =
                             ((U_p_ref - U_n_ref)
                                 + (Vav(e.t[j]) - R_cp(z_plot[i]) * It[e.t[j]]) * potential_scale)
                             - ((U_p_ref - U_n_ref) + Vav(e.t[j]) * potential_scale)
                      /\ e.comsol[i][j] = FieldVariable(pos, data.comsol)[z_plot[i]][e.t[j]]
                                          - TerminalVoltageDim(data.comsol)[e.t[j]]
                      /\ e.pybamm[i][j] = FieldVariable(pos, data.dfn)[z_plot[i]][e.t[j]]
                                          - TerminalVoltageDim(data.dfn)[e.t[j]]

C5_Witness ==
    /\ FiguresOf("Negative current collector potential [V]") # {}
    /\ \E k \in FiguresOf("Positive current collector potential [V]") :
           /\ figures[k].full.bar[NZ][NT] < 0
           /\ figures[k].full.comsol[1][1] # figures[k].full.pybamm[1][1]
           /\ data.R > 1
           /\ data.av[1] # data.av[NT]

\* C6: in the temperature comparison T_ref is subtracted exactly once from
\* each of the three sources, in the general and in the single-instant branch,
\* so the difference of two sources is the difference of their raw temperatures.
C6_temperature_offset_once ==
    LET var == "X-averaged cell temperature [K]"
        Tc == FieldVariable(var, data.comsol)
        Tp == FieldVariable(var, data.dfn)
        Ta == AverageVariable(var, data.av)
    IN  \A k \in FiguresOf(var) : \A e \in EvaluationsOf(k) :
            /\ IsArray2D(e.bar, NZ, Len(e.t))
            /\ IsArray2D(e.comsol, NZ, Len(e.t))
            /\ IsArray2D(e.pybamm, NZ, Len(e.t))
            /\ \A i \in 1 .. NZ, j \in 1 .. Len(e.t) :
                   /\ e.comsol[i][j] = Tc[z_plot[i]][e.t[j]] - T_ref_param
                   /\ e.pybamm[i][j] = Tp[z_plot[i]][e.t[j]] - T_ref_param
                   /\ e.bar[i][j] = Ta[e.t[j]] - T_ref_param
                   /\ e.comsol[i][j] - e.bar[i][j] = Tc[z_plot[i]][e.t[j]] - Ta[e.t[j]]
                   /\ e.comsol[i][j] - e.pybamm[i][j]
                          = Tc[z_plot[i]][e.t[j]] - Tp[z_plot[i]][e.t[j]]
                   /\ e.pybamm[i][j] - e.bar[i][j] = Tp[z_plot[i]][e.t[j]] - Ta[e.t[j]]

C6_Witness ==
    \E k \in FiguresOf("X-averaged cell temperature [K]") :
        /\ Len(figures[k].slices) = NT
        /\ figures[k].full.comsol[1][1] # figures[k].full.pybamm[1][1]
        /\ figures[k].slices[NT].bar[NZ][1] > 0
        /\ figures[k].full.bar[NZ][1] # figures[k].full.bar[NZ][NT]

(* ------------------- claims: the supplementary scripts ----------------- *)
\* the float a as a multiple of 2^lo
Scaled(a, lo) == a[1] * Pow2(a[2] - lo)

\* |a - b| <= max(a, b) / 2^k in exact arithmetic
Close(a, b, k) ==
    \E lo \in { IF a[2] < b[2] THEN a[2] ELSE b[2] } :
        Abs(Scaled(a, lo) - Scaled(b, lo)) * Pow2(k)
            <= (IF Scaled(a, lo) < Scaled(b, lo) THEN Scaled(b, lo) ELSE Scaled(a, lo))

\* the discharge script has evaluated, or tried to evaluate, the interpolants
DischargeQueried ==
    /\ script = "plot_discharge_curve"
    /\ pc = "L172" \/ (pc = "crashed" /\ dc.line = 128)

\* the COMSOL functions processed by the plotting function that is running
ProcessedComsol ==
    IF script # "plot_potentials_concentrations" THEN {}
    ELSE IF pp.frame.function = "whole_cell_comparison_plot"
    THEN { pp.frame.comsol_var_fun }
    ELSE IF pp.frame.function = "electrode_comparison_plot"
    THEN { pp.frame.comsol_var_n_fun, pp.frame.comsol_var_p_fun }
    ELSE {}

\* the dimensional times computed back from the non-dimensional ones, each
\* with the time of the data set it started from
RoundTrips ==
    IF DischargeQueried
    THEN { <<dc.query[j], dc.comsol_t[j]>> : j \in 1 .. Len(dc.query) }
    ELSE UNION { { <<f.queries[j], pp.comsol_t[j]>> : j \in 1 .. Len(f.queries) } :
                 f \in ProcessedComsol }

\* the factors a length is scaled by: every mantissa
Scalars == { <<m, 0>> : m \in Pow2(Precision - 1) .. Pow2(Precision) - 1 }

\* the function get_interp_fun has just returned, with the non-dimensional
\* mesh points its pybamm_x was computed from
Built ==
    IF script = "plot_potentials_concentrations"
    THEN { <<pp.names[i],
             IF Statements[i].eval_on_edges
             THEN combine_submeshes(Statements[i].domain).edges
             ELSE combine_submeshes(Statements[i].domain).nodes>> :
           i \in { i \in {pp.next - 1} \cap (1 .. Len(Statements)) :
                       pp.names[i].kind = "Function" } }
    ELSE IF script = "get_interp_fun" /\ pc = "returned"
    THEN { <<pp.fun, IF pp.eval_on_edges THEN combine_submeshes(pp.domain).edges
                     ELSE combine_submeshes(pp.domain).nodes>> }
    ELSE {}

\* a mesh point scaled and then made dimensional, with the dimensional point
\* scaled
Lengths ==
    UNION { { <<MulArray(<<FMul(a, b[2][n])>>, pp.L_x)[1], FMul(a, b[1].pybamm_x[n])>> :
              a \in Scalars, n \in 1 .. Len(b[2]) } : b \in Built }

\* C7 (as amended): a time made non-dimensional (t / tau) and dimensional again
\* (* tau) is the original time up to one rounding, a relative error of at most
\* 2^-(p-1) for floats of p bits; a length scaled by a and made dimensional
\* (* L_x) is a times the dimensional length up to a relative error of 2^-(p-3)
C7_rescaling_up_to_rounding ==
    /\ \A r \in RoundTrips : Close(r[1], r[2], Precision - 1)
    /\ \A l \in Lengths : Close(l[1], l[2], Precision - 3)

\* C7 (as stated): the round trip returns the original time and the length
\* scaling is linear, exactly
C7_rescaling_exact ==
    /\ \A r \in RoundTrips : r[1] = r[2]
    /\ \A l \in Lengths : l[1] = l[2]

\* a discharge curve is drawn at times the round trip has moved
C7_Witness ==
    /\ script = "plot_discharge_curve"
    /\ pc = "L172"
    /\ \E r \in RoundTrips : r[1] # r[2]

\* the curves of one plot time drawn by the potentials script
PlotLines ==
    IF script # "plot_potentials_concentrations" THEN {}
    ELSE UNION { Range(figures[k].lines) : k \in 1 .. Len(figures) }
         \cup (IF pp.frame.function = "none" THEN {} ELSE Range(pp.frame.lines))

\* the difference curves drawn: <<difference, pybamm values, COMSOL values>>
Differences ==
    IF script = "plot_discharge_curve" /\ pc = "L172"
    THEN { <<dc.curve.difference_voltage, dc.pybamm_voltage, dc.curve.comsol_voltage>>,
           <<dc.curve.difference_temperature, dc.pybamm_temperature,
             dc.curve.comsol_temperature>> }
    ELSE { <<l.error, l.pybamm_var, l.comsol_var>> :
             l \in { l \in PlotLines : "error" \in DOMAIN l } }
         \cup { <<l.error_n, l.pybamm_var_n, l.comsol_var_n>> :
                  l \in { l \in PlotLines : "error_n" \in DOMAIN l } }
         \cup { <<l.error_p, l.pybamm_var_p, l.comsol_var_p>> :
                  l \in { l \in PlotLines : "error_p" \in DOMAIN l } }

Maximum(a) == CHOOSE v \in Range(a) : \A w \in Range(a) : w <= v

\* C8: a difference curve is, point by point, the absolute value of the
\* difference of the two curves: never negative, the same whichever curve is
\* subtracted from the other, zero where the curves agree, and of maximum zero
\* when the two curves are the same
C8_discrepancy_is_absolute_difference ==
    \A d \in Differences :
        /\ Len(d[1]) = Len(d[2])
        /\ Len(d[1]) = Len(d[3])
        /\ \A j \in 1 .. Len(d[1]) :
               /\ d[1][j] >= 0
               /\ d[1][j] = d[2][j] - d[3][j] \/ d[1][j] = d[3][j] - d[2][j]
               /\ d[2][j] = d[3][j] => d[1][j] = 0
        /\ AbsDiff(d[3], d[2]) = d[1]
        /\ d[2] = d[3] /\ Len(d[1]) > 0 => Maximum(d[1]) = 0

\* one difference curve of several points is zero throughout, the two curves
\* being the same, while another of the same plot is not
C8_Witness ==
    /\ \E d \in Differences :
           /\ Len(d[1]) >= 2
           /\ d[2] = d[3]
           /\ Maximum(d[1]) = 0
    /\ \E d \in Differences : \E j \in 1 .. Len(d[1]) : d[1][j] > 0 /\ d[3][j] > d[2][j]

\* the four domains of the claim and the key of the coordinates of each
OwnCoordinates ==
    { << <<"negative electrode">>, "x_n" >>, << <<"separator">>, "x_s" >>,
      << <<"positive electrode">>, "x_p" >>, <<whole_cell, "x">> }

\* domain is one of the four and the data set has no coordinates for it
KeyAbsent(domain, comsol_variables) ==
    \E dk \in OwnCoordinates : dk[1] = domain /\ dk[2] \notin DOMAIN comsol_variables

Unrecognised(domain) == \A dk \in OwnCoordinates : dk[1] # domain

Outside(q, x) == FLess(q, x[1]) \/ FLess(x[Len(x)], q)

\* the failure of a time query outside the data, as the exception named
OutOfRangeFails(exception) ==
    /\ DischargeQueried =>
         IF \E j \in 1 .. Len(dc.query) : Outside(dc.query[j], dc.comsol_t)
         THEN /\ pc = "crashed"
              /\ dc.error = exception
              /\ Len(curves) = dc.counter
         ELSE /\ pc = "L172"
              /\ dc.error = "none"
              /\ Len(dc.curve.comsol_voltage) = Len(dc.query)
              /\ Len(dc.curve.comsol_temperature) = Len(dc.query)
    /\ script = "plot_potentials_concentrations" /\ pc # "L52" =>
         IF \E j \in 1 .. Len(pp.time) : Outside(FMul(pp.time[j], pp.tau), pp.comsol_t)
         THEN /\ figures = <<>>
              /\ pp.frame.function = "none"
              /\ pc \in {"L100", "L444", "crashed"}
              /\ pc = "crashed" /\ pp.line > 123 => pp.error = exception /\ pp.line = 215
         ELSE /\ pp.line <= 123
              /\ \A f \in ProcessedComsol : \A i \in 1 .. Len(f.entries) :
                     Len(f.entries[i]) = Len(pp.time)

Logged(axis, name) ==
    { k \in 1 .. Len(pp.interpolations) :
        pp.interpolations[k].axis = axis /\ pp.interpolations[k].name = name }

\* the processed COMSOL functions of the plotting function that is running,
\* each with the function of comsol_model it was made from
ProcessedPairs ==
    IF script # "plot_potentials_concentrations" THEN {}
    ELSE IF pp.frame.function = "whole_cell_comparison_plot"
    THEN { <<pp.frame.comsol_var_fun, pp.comsol_model[pp.frame.var]>> }
    ELSE IF pp.frame.function = "electrode_comparison_plot"
    THEN { <<pp.frame.comsol_var_n_fun, pp.comsol_model["Negative " \o pp.frame.var]>>,
           <<pp.frame.comsol_var_p_fun, pp.comsol_model["Positive " \o pp.frame.var]>> }
    ELSE {}

\* C11: the data of a reference field are interpolated along the spatial axis
\* exactly once, by the call of get_interp_fun that builds the field and before
\* any time query, onto the mesh nodes (edges with eval_on_edges) in metres;
\* every evaluation at a time interpolates the remapped array along time only
C11_remap_once_at_construction ==
    /\ script = "plot_potentials_concentrations" =>
         /\ \A i \in { i \in 1 .. Len(Statements) : Statements[i].domain # <<>> } :
                /\ Cardinality(Logged("space", Statements[i].variable \o "_comsol"))
                       = IF pp.names[i].kind = "Function" THEN 1 ELSE 0
                /\ \A k \in Logged("time", Statements[i].variable \o "_comsol") :
                       \E m \in Logged("space", Statements[i].variable \o "_comsol") : m < k
                /\ pp.names[i].kind = "Function" =>
                       /\ pp.names[i].pybamm_x
                              = pybamm_x(Statements[i].domain, Statements[i].eval_on_edges,
                                         pp.L_x)
                       /\ Len(pp.names[i].variable) = Len(pp.names[i].pybamm_x)
                       /\ \A n \in 1 .. Len(pp.names[i].variable) :
                              Len(pp.names[i].variable[n]) = Len(pp.comsol_t)
         /\ \A pf \in ProcessedPairs :
                /\ Len(pf[1].entries) = Len(pf[2].variable)
                /\ \A n \in 1 .. Len(pf[2].variable), j \in 1 .. Len(pf[1].queries) :
                       pf[1].entries[n][j]
                           = ValueAt(interp1d(pp.comsol_t, pf[2].variable[n], interp_kind),
                                     pf[1].queries[j])
    /\ script = "get_interp_fun" /\ pc # "L69" =>
         /\ Len(pp.interpolations) = IF pc = "returned" THEN 1 ELSE 0
         /\ \A k \in 1 .. Len(pp.interpolations) : pp.interpolations[k].axis = "space"

\* a figure is finished: the two electrode potentials have been evaluated at
\* every solution time, and each was remapped once, before that
C11_Witness ==
    /\ script = "plot_potentials_concentrations"
    /\ figures # <<>>
    /\ Cardinality(Logged("time", "phi_n_comsol")) = NS
    /\ Cardinality(Logged("space", "phi_n_comsol")) = 1
    /\ Cardinality(Logged("time", "phi_p_comsol")) = NS

\* an interpolant over an axis of fewer than four nodes has been asked for and
\* the statement that asked for it has failed: the time axis of a discharge
\* data set (line 76), the time axis of the potentials data set (line 110),
\* the separator coordinates (line 89, called from line 122 or directly)
ShortAxisFails ==
    \/ /\ script = "plot_discharge_curve"
       /\ pc = "crashed"
       /\ dc.line = 76
       /\ Len(dc.comsol_t) < 4
    \/ /\ script = "plot_potentials_concentrations"
       /\ pc = "crashed"
       /\ pp.line = 110
       /\ Len(pp.comsol_t) < 4
    \/ /\ script = "plot_potentials_concentrations"
       /\ pc = "crashed"
       /\ pp.line = 122
       /\ "x_s" \in DOMAIN pp.comsol_variables
       /\ Len(pp.comsol_variables["x_s"]) < 4
    \/ /\ script = "get_interp_fun"
       /\ pc = "raised"
       /\ pp.error = "ValueError"
       /\ pp.domain = <<"separator">>
       /\ pp.variable_name = "Q_total_s"
       /\ "x_s" \in DOMAIN pp.comsol_variables
       /\ Len(pp.comsol_variables["x_s"]) < 4

\* C12 (as stated): interpolation is cubic and degrades to linear on an axis of
\* fewer than four nodes, so that a field of one to three nodes is evaluated
\* and does not fail
C12_degrades_to_linear == ~ShortAxisFails

\* the discharge script has loaded a data set of three time samples and has
\* stopped at line 76 with the ValueError of the cubic interpolant
C12_Witness ==
    /\ script = "plot_discharge_curve"
    /\ pc = "crashed"
    /\ dc.line = 76
    /\ dc.error = "ValueError"
    /\ Len(dc.comsol_t) = 3
    /\ curves = <<>>

\* the fields built by the potentials script: the places of their statements
BuiltFields ==
    IF script # "plot_potentials_concentrations" THEN {}
    ELSE { i \in 1 .. Len(Statements) : pp.names[i].kind = "Function" }

\* the field of a statement has been processed by the plotting function that
\* is running: the processed variables made from it
ProcessedOf(i) == { pf[1] : pf \in { pf \in ProcessedPairs : pf[2] = pp.names[i] } }

PastCutOff == script = "plot_discharge_curve" /\ pc \in {"L110", "L126", "L172"}

\* the simulated terminal voltage at the retained times
RetainedVoltage == ProcessedAt(dc.solution.t, dc.solution.voltage, dc.time)

\* the retained times are the first k solution times, k the number of samples
\* above the cut-off
RetainedAreFirstK ==
    /\ dc.time = SubSeq(dc.solution.t, 1, Len(dc.time))
    /\ Len(dc.time)
           = Cardinality({ j \in 1 .. Len(dc.solution.t) :
                              dc.solution.voltage[j] > V_cutoff })

\* C14 (as stated): after the cut-off restriction every retained time has a
\* simulated terminal voltage strictly above V_cutoff, whatever the voltage
\* series, and the retained times are the first k solution times, k the number
\* of samples above the cut-off
C14_retained_above_cutoff ==
    PastCutOff =>
        /\ RetainedAreFirstK
        /\ \A j \in 1 .. Len(dc.time) : RetainedVoltage[j] > V_cutoff

\* the voltage has fallen to the cut-off and risen again, and a time at which
\* it is not above the cut-off is retained
C14_Witness ==
    /\ PastCutOff
    /\ \E j \in 1 .. Len(dc.time) :
           /\ RetainedVoltage[j] <= V_cutoff
           /\ \E l \in j + 1 .. Len(dc.solution.t) : dc.solution.voltage[l] > V_cutoff

(* ----------------------- claims: compare_models.py --------------------- *)
\* the variables of the four plots, in the order of the calls
PlotVariables ==
    << "Negative current collector potential [V]",
       "Positive current collector potential [V]",
       "Current collector current density [A.m-2]",
       "X-averaged cell temperature [K]" >>

\* the three functions defined for the variable of the k-th plot
OwnFunctions(k) ==
    CASE k = 1 -> << PV(FieldVariable(PlotVariables[1], data.comsol)),
                     PV(FieldVariable(PlotVariables[1], data.dfn)),
                     [kind |-> "potentials", var |-> PlotVariables[1]] >>
      [] k = 2 -> << Def("comsol_var_fun", 174), Def("pybamm_var_fun", 192),
                     Def("pybamm_bar_var_fun", 208) >>
      [] k = 3 -> << PV(FieldVariable(PlotVariables[3], data.comsol)),
                     PV(FieldVariable(PlotVariables[3], data.dfn)),
                     Def("pybamm_bar_var_fun", 248) >>
      [] k = 4 -> << Def("comsol_var_fun", 279), Def("pybamm_var_fun", 291),
                     Def("pybamm_bar_var_fun", 303) >>

\* I_av has been rebound to the dimensional current (lines 240-245)
Rebound ==
    /\ script = "compare_models"
    /\ cm.I_av_name = "Current collector current density [A.m-2]"

\* C15: I_av is bound to the non-dimensional total current and rebound to the
\* dimensional current-collector current only after the second plot; V_av reads
\* the I_av bound when it is called; every evaluation of V_av the script makes
\* finds the non-dimensional total current; and each of the four plots is
\* given the three functions defined for its own variable
C15_V_av_before_rebinding ==
    script = "compare_models" =>
        /\ \A c \in V_av_calls : c.I_av_name = "Total current density"
        /\ Rebound =>
               /\ Len(figures) >= 2
               /\ V_av_calls # {}
               /\ cm.I_av = AverageVariable("Current collector current density [A.m-2]",
                                            data.av)
               /\ cm.potentials.I_av = AverageVariable("Total current density", data.av)
               /\ \A j \in 1 .. Len(t_plot) :
                      V_av(cm, t_plot)[j]
                          = cm.V_av_1D[t_plot[j]] - cm.I_av[t_plot[j]] * cm.R_cc
        /\ ~Rebound => Len(figures) <= 2
        /\ \A k \in 1 .. Len(figures) :
               /\ figures[k].var = PlotVariables[k]
               /\ figures[k].funs = OwnFunctions(k)
               /\ figures[k].I_av_name = IF k <= 2 THEN "Total current density"
                                         ELSE PlotVariables[3]

\* the four plots are made; V_av was evaluated before the rebinding, and a call
\* now would return other values than it did
C15_Witness ==
    /\ script = "compare_models"
    /\ Len(figures) = 4
    /\ Rebound
    /\ \E c \in V_av_calls : c.t = t_plot /\ c.value # V_av(cm, t_plot)

(* -------------------- claims: the discharge-curve loop ----------------- *)
\* the discharge script has solved the model in the iteration it is in
Solved == script = "plot_discharge_curve" /\ pc \in {"L95", "L110", "L126", "L172"}

\* C16: the entries of C_rates are processed once each, in the order of the
\* dictionary; in iteration i the parameter update precedes the solve, so the
\* solve, the time scale and the curves drawn belong to the C-rate value_i and
\* to the data set of key_i; counter is the number of iterations completed and
\* only the curves of the first iteration carry the label COMSOL
C16_iterations_pair_key_and_value ==
    script = "plot_discharge_curve" =>
        /\ dc.i \in 1 .. Len(C_rates) + 1
        /\ dc.counter = dc.i - 1
        /\ Len(curves) = dc.counter + (IF pc = "L172" THEN 1 ELSE 0)
        /\ pc = "done" => Len(curves) = Len(C_rates)
        /\ \A k \in 1 .. Len(curves) :
               /\ curves[k].key = C_rates[k][1]
               /\ curves[k].value = C_rates[k][2]
               /\ curves[k].file = DataFile(C_rates[k][1])
               /\ curves[k].C_rate = C_rates[k][2]
               /\ curves[k].tau_C_rate = C_rates[k][2]
               /\ curves[k].color = k - 1
               /\ curves[k].label = "COMSOL" <=> k = 1
        /\ Solved =>
               /\ dc.key = C_rates[dc.i][1]
               /\ dc.value = C_rates[dc.i][2]
               /\ dc.file = DataFile(dc.key)
               /\ dc.C_rate = dc.value
               /\ dc.solved_C_rate = dc.value
               /\ dc.tau_C_rate = dc.value

\* the loop has run through the dictionary: four sets of curves, the first
\* labelled
C16_Witness ==
    /\ script = "plot_discharge_curve"
    /\ pc = "done"
    /\ Len(curves) = Len(C_rates)
    /\ curves[1].label = "COMSOL"
    /\ curves[Len(C_rates)].label = ""
    /\ curves[Len(C_rates)].C_rate = 30

====
